---- MODULE Spec2Model ----
(***************************************************************************)
(* The upload -> extract -> filter -> select columns -> paginate -> export *)
(* pipeline of json_file_read_streamlit.py as a state machine.             *)
(*                                                                         *)
(* One step of the machine is one user interaction followed by the full    *)
(* top-to-bottom run of the script that the interaction triggers (and the  *)
(* second run that st.rerun() asks for).  The state is what survives a     *)
(* run: the uploaded file, st.session_state, the values of the keyed       *)
(* widgets, and what the last run put on the screen.                       *)
(*                                                                         *)
(* Modelling domain.  A cell value is a pair <<dtype, text>>, text being   *)
(* what astype(str) gives for it.  JSON arrays are homogeneous (all        *)
(* objects or all scalars), JSON numbers are integers, and cells of an     *)
(* array-of-objects are scalars.  detect_url_columns only decorates the    *)
(* rendered page and is left out.                                          *)
(***************************************************************************)
EXTENDS Integers, Sequences, FiniteSets, TLC

(***************************************************************************)
(* Bounds of the model.                                                    *)
(***************************************************************************)
\* rows of the generated large upload
BigRows == 25
\* the number input is tried with 1 .. MaxRowsPerPage and with its default
MaxRowsPerPage == 2

(***************************************************************************)
(* Program constants.                                                      *)
(***************************************************************************)
\* value=10 of the rows-per-page number input
DefaultRowsPerPage == 10
\* min_value=1 of the rows-per-page number input
MinRowsPerPage == 1

filter_cols == <<"topic_name", "publisher", "publication_type">>

(***************************************************************************)
(* Small helpers.                                                          *)
(***************************************************************************)
Min(a, b) == IF a < b THEN a ELSE b

Max(a, b) == IF a > b THEN a ELSE b

Range(s) == {s[i] : i \in DOMAIN s}

(***************************************************************************)
(* JSON values, as json.load returns them.                                 *)
(***************************************************************************)
JStr(s) == [t |-> "str", v |-> s]

JNum(n) == [t |-> "num", v |-> n]

JList(items) == [t |-> "list", v |-> items]

\* pairs: a sequence of <<key, value>>, in the document's order (dict order)
JDict(pairs) == [t |-> "dict", v |-> pairs]

IsList(j) == j.t = "list"

IsDict(j) == j.t = "dict"

\* repr() of a value held in a cell
RECURSIVE Repr(_)
Repr(j) ==
    CASE j.t = "str" -> "'" \o j.v \o "'"
      [] j.t = "num" -> ToString(j.v)
      [] j.t = "list" ->
            LET RECURSIVE Join(_)
                Join(s) == IF s = <<>> THEN ""
                           ELSE IF Len(s) = 1 THEN Repr(s[1])
                           ELSE Repr(s[1]) \o ", " \o Join(Tail(s))
            IN "[" \o Join(j.v) \o "]"

(***************************************************************************)
(* Tables (pandas DataFrames): cols is the ordered list of column labels,  *)
(* rows the ordered list of rows, each a function from the labels to       *)
(* cells.                                                                  *)
(***************************************************************************)
NaN == <<"nan", "nan">>

\* the cell pandas holds for a JSON value
Cell(j) ==
    CASE j.t = "str" -> <<"str", j.v>>
      [] j.t = "num" -> <<"int", ToString(j.v)>>
      [] j.t = "list" -> <<"list", Repr(j)>>

\* Series.astype(str) of one cell
AsStr(c) == c[2]

\* DataFrame.empty: some axis has length 0
IsEmpty(df) == Len(df.cols) = 0 \/ Len(df.rows) = 0

EmptyFrame == [cols |-> <<>>, rows |-> <<>>]

\* an integer column with a missing value is held as float64
Upcast(cols, rows) ==
    LET holed(c) == /\ \E i \in DOMAIN rows : rows[i][c] = NaN
                    /\ \A i \in DOMAIN rows : rows[i][c][1] \in {"int", "nan"}
        fix(c, x) == IF holed(c) /\ x[1] = "int" THEN <<"float", x[2] \o ".0">> ELSE x
    IN [i \in DOMAIN rows |-> [c \in Range(cols) |-> fix(c, rows[i][c])]]

Lookup(pairs, k) == (CHOOSE i \in DOMAIN pairs : pairs[i][1] = k)

HasKey(pairs, k) == \E i \in DOMAIN pairs : pairs[i][1] = k

\* the keys of a list of objects, in first-seen order: the places <<i, k>> (key
\* k of object i) where a key occurs for the first time, in reading order
UnionKeys(items) ==
    LET places == UNION {{<<i, k>> : k \in 1..Len(items[i].v)} : i \in DOMAIN items}
        key(p) == items[p[1]].v[p[2]][1]
        before(q, p) == q[1] < p[1] \/ (q[1] = p[1] /\ q[2] < p[2])
        firsts == {p \in places : \A q \in places : before(q, p) => key(q) # key(p)}
    IN [n \in 1..Cardinality(firsts) |->
          key(CHOOSE p \in firsts : Cardinality({q \in firsts : before(q, p)}) = n - 1)]

\* pd.DataFrame(data) for a list
DataFrame(items) ==
    IF items = <<>> THEN EmptyFrame
    ELSE IF IsDict(items[1])
    THEN LET cols == UnionKeys(items)
             raw == [i \in DOMAIN items |->
                        [c \in Range(cols) |->
                            IF HasKey(items[i].v, c)
                            THEN Cell(items[i].v[Lookup(items[i].v, c)][2])
                            ELSE NaN]]
         IN [cols |-> cols, rows |-> Upcast(cols, raw)]
    ELSE [cols |-> <<"0">>,
          rows |-> [i \in DOMAIN items |-> [c \in {"0"} |-> Cell(items[i])]]]

\* the flattened <<column, cell>> pairs of pd.json_normalize for one object
RECURSIVE Flatten(_, _)
Flatten(pairs, prefix) ==
    IF pairs = <<>> THEN <<>>
    ELSE LET k == Head(pairs)[1]
             x == Head(pairs)[2]
         IN (IF IsDict(x) THEN Flatten(x.v, prefix \o k \o ".")
             ELSE << <<prefix \o k, Cell(x)>> >>)
            \o Flatten(Tail(pairs), prefix)

\* pd.json_normalize(data) for a dict
json_normalize(pairs) ==
    LET flat == Flatten(pairs, "")
        cols == [i \in DOMAIN flat |-> flat[i][1]]
    IN IF flat = <<>> THEN EmptyFrame
       ELSE [cols |-> cols,
             rows |-> << [c \in Range(cols) |-> flat[Lookup(flat, c)][2]] >>]

(***************************************************************************)
(* load_nested_json.  The result is the returned pair (df, error): df_none *)
(* says that df is None, error is "" for None, and ret names the return    *)
(* statement that produced it.                                             *)
(***************************************************************************)
Returned(df, ret) == [df_none |-> FALSE, df |-> df, error |-> "", ret |-> ret]

Failed(msg, ret) == [df_none |-> TRUE, df |-> EmptyFrame, error |-> msg, ret |-> ret]

\* IsRecordList with a fault: any non-empty list will do
IsNonEmptyList(value) == IsList(value) /\ Len(value.v) > 0

\* the condition of the heuristic's if statement
IsRecordList(value) == IsList(value) /\ Len(value.v) > 0 /\ IsDict(value.v[1])

\* for key, value in data.items(): ... , then the json_normalize fallback
RECURSIVE ScanItems(_, _)
ScanItems(items, data) ==
    IF items = <<>> THEN Returned(json_normalize(data.v), "normalize")
    ELSE IF IsRecordList(Head(items)[2])
         THEN Returned(DataFrame(Head(items)[2].v), "records_key")
         ELSE ScanItems(Tail(items), data)

load_nested_json(file_content) ==
    IF file_content.t = "malformed"
    THEN Failed("Error: Could not decode JSON. File may be malformed or empty.",
                "decode_error")
    ELSE LET data == file_content
         IN IF IsList(data) THEN Returned(DataFrame(data.v), "root_list")
            ELSE IF IsDict(data) THEN ScanItems(data.v, data)
            ELSE Failed("Error: JSON root element is not a list or dictionary.",
                        "bad_root")

(***************************************************************************)
(* pd.read_csv on rectangular text: the first line is the header, an empty *)
(* field is a missing value, a column of numbers is numeric.               *)
(***************************************************************************)
NumberTexts == {ToString(i) : i \in 0..99}

read_csv(lines) ==
    LET cols == lines[1]
        body == Tail(lines)
        pos(c) == CHOOSE k \in DOMAIN cols : cols[k] = c
        numeric(c) == \A i \in DOMAIN body : body[i][pos(c)] \in NumberTexts \cup {""}
        cell(c, x) == IF x = "" THEN NaN
                      ELSE IF numeric(c) THEN <<"int", x>> ELSE <<"str", x>>
        raw == [i \in DOMAIN body |-> [c \in Range(cols) |-> cell(c, body[i][pos(c)])]]
    IN [cols |-> cols, rows |-> Upcast(cols, raw)]

(***************************************************************************)
(* The uploads the user can choose from.                                   *)
(***************************************************************************)
PubsList ==
    JList(<< JDict(<< <<"publisher", JStr("Acme")>>, <<"publication_type", JStr("book")>> >>),
             JDict(<< <<"publisher", JNum(7)>>, <<"publication_type", JStr("journal")>> >>),
             JDict(<< <<"publisher", JStr("Zed")>>, <<"publication_type", JStr("book")>> >>),
             JDict(<< <<"publisher", JStr("7")>>, <<"publication_type", JStr("journal")>> >>) >>)

BigList ==
    JList([i \in 1..BigRows |->
             JDict(<< <<"id", JNum(i)>>,
                      <<"publisher", JStr(IF i % 6 = 0 THEN "Zed" ELSE "Acme")>> >>)])

Files ==
    << \* 1: an array of objects at the root
       [ext |-> "json", content |-> PubsList],
       \* 2: the same array under the only key that holds records
       [ext |-> "json",
        content |-> JDict(<< <<"count", JNum(4)>>,
                             <<"tags", JList(<<JStr("x"), JStr("y")>>)>>,
                             <<"empty", JList(<<>>)>>,
                             <<"records", PubsList>> >>)],
       \* 3: two keys hold records
       [ext |-> "json",
        content |-> JDict(<< <<"first", JList(<< JDict(<< <<"topic_name", JStr("ai")>>,
                                                          <<"n", JNum(1)>> >>),
                                                 JDict(<< <<"topic_name", JStr("ml")>> >>) >>)>>,
                             <<"second", JList(<< JDict(<< <<"publisher", JStr("Acme")>> >>) >>)>> >>)],
       \* 4: no key holds records
       [ext |-> "json",
        content |-> JDict(<< <<"tags", JList(<<JStr("x")>>)>>,
                             <<"meta", JDict(<< <<"n", JNum(1)>> >>)>> >>)],
       \* 5: a scalar at the root
       [ext |-> "json", content |-> JNum(42)],
       \* 6: not JSON
       [ext |-> "json", content |-> [t |-> "malformed"]],
       \* 7: an empty array
       [ext |-> "json", content |-> JList(<<>>)],
       \* 8: the large array of objects
       [ext |-> "json", content |-> BigList],
       \* 9: a CSV file
       [ext |-> "csv", utf8 |-> TRUE,
        lines |-> << <<"topic_name", "score">>, <<"ai", "1">>, <<"ml", "">>, <<"ai", "3">> >>],
       \* 10: a CSV file that is not UTF-8
       [ext |-> "csv", utf8 |-> FALSE, lines |-> <<>>] >>

FileIds == DOMAIN Files

(***************************************************************************)
(* Lines 106-117: reading the upload.  raised says that the read threw     *)
(* (caught by the except Exception at the bottom of the script).           *)
(***************************************************************************)
ReadFile(f) ==
    IF f.ext = "csv"
    THEN IF f.utf8 /\ f.lines # <<>>
         THEN [raised |-> FALSE] @@ Returned(read_csv(f.lines), "csv")
         ELSE [raised |-> TRUE] @@ Failed("", "csv")
    ELSE [raised |-> FALSE] @@ load_nested_json(f.content)

\* st.cache_data: one read per file
Extracted == [i \in FileIds |-> ReadFile(Files[i])]

(***************************************************************************)
(* State.                                                                  *)
(***************************************************************************)
VARIABLES
    \* the file in the uploader: an index of Files, or 0 for none
    uploaded_file,
    \* st.session_state: a function from the keys the script has set
    \* (df_original, page, df_filtered) to their values
    session_state,
    \* the stored values of the keyed widgets, by key
    widgets,
    \* what the last run of the script left on the screen
    screen,
    \* the interaction that triggered the last run
    interaction

vars == <<uploaded_file, session_state, widgets, screen, interaction>>

Put(f, k, x) == [y \in DOMAIN f \cup {k} |-> IF y = k THEN x ELSE f[y]]

Restrict(f, K) == [y \in DOMAIN f \cap K |-> f[y]]

\* the value a keyed widget shows: the stored one while it is still among the
\* widget's choices, the widget's default otherwise
Stored(w, key, choices, default) ==
    IF key \in DOMAIN w /\ w[key] \in choices THEN w[key] ELSE default

(***************************************************************************)
(* Lines 127-130: keep the held table or replace it and reset the page.    *)
(***************************************************************************)
\* DataFrame.equals
Equals(a, b) == a = b

IsNewTable(ss, df) == "df_original" \notin DOMAIN ss \/ ~Equals(ss["df_original"], df)

\* HoldTable with a fault: the table is stored only when none is held
HoldTableFirstOnly(ss, df) ==
    IF "df_original" \notin DOMAIN ss THEN Put(Put(ss, "df_original", df), "page", 0) ELSE ss

HoldTable(ss, df) ==
    IF IsNewTable(ss, df) THEN Put(Put(ss, "df_original", df), "page", 0) ELSE ss

(***************************************************************************)
(* Lines 135-171: the filter dropdowns and the filtered table.             *)
(***************************************************************************)
FilterKey(col_name) == "filter_" \o col_name

\* df[col].astype(str).dropna().unique().tolist(): the texts of the column in
\* first-seen order ("nan" is a text like any other, so dropna drops nothing)
Unique(rows, col) ==
    LET texts == [i \in DOMAIN rows |-> AsStr(rows[i][col])]
        firsts == SelectSeq([i \in DOMAIN rows |-> i],
                            LAMBDA i : \A j \in 1..(i - 1) : texts[j] # texts[i])
    IN [k \in DOMAIN firsts |-> texts[firsts[k]]]

Options(df, col_name) == <<"All">> \o Unique(df.rows, col_name)

\* the filter columns the table has, in filter_cols order
PresentFilterCols(df) == SelectSeq(filter_cols, LAMBDA c : c \in Range(df.cols))

selected_value(w, df, col_name) ==
    Stored(w, FilterKey(col_name), Range(Options(df, col_name)), "All")

\* active_filters, as the list of its (column, value) items
ActiveFilters(w, df) ==
    LET present == PresentFilterCols(df)
        chosen == [i \in DOMAIN present |-> <<present[i], selected_value(w, df, present[i])>>]
    IN SelectSeq(chosen, LAMBDA item : item[2] # "All")

\* KeepRows with a fault: the cell itself, not its text, is compared
KeepRowsUncoerced(df, col, value) ==
    [cols |-> df.cols, rows |-> SelectSeq(df.rows, LAMBDA r : r[col] = <<"str", value>>)]

\* df_filtered[df_filtered[col].astype(str) == value]
KeepRows(df, col, value) ==
    [cols |-> df.cols, rows |-> SelectSeq(df.rows, LAMBDA r : AsStr(r[col]) = value)]

\* for col, value in active_filters.items(): narrow df_filtered
RECURSIVE ApplyFilters(_, _)
ApplyFilters(df, active) ==
    IF active = <<>> THEN df
    ELSE ApplyFilters(KeepRows(df, Head(active)[1], Head(active)[2]), Tail(active))

(***************************************************************************)
(* Lines 178-200: the column selection.                                    *)
(***************************************************************************)
\* the lists a multiselect over all_cols can hold: no label twice
Selections(all_cols) ==
    {s \in UNION {[1..n -> Range(all_cols)] : n \in 0..Len(all_cols)} :
        \A i, j \in DOMAIN s : i # j => s[i] # s[j]}

\* df[selected_cols]
SelectColumns(df, selected_cols) ==
    [cols |-> selected_cols,
     rows |-> [i \in DOMAIN df.rows |-> [c \in Range(selected_cols) |-> df.rows[i][c]]]]

(***************************************************************************)
(* Lines 209-230: the pager.                                               *)
(***************************************************************************)
RowsPerPageValues == (MinRowsPerPage..MaxRowsPerPage) \cup {DefaultRowsPerPage}

\* TotalPages with a fault: total_rows // rows_per_page + 1
TotalPagesOffByOne(total_rows, rows_per_page) ==
    IF total_rows > 0 THEN (total_rows \div rows_per_page) + 1 ELSE 1

TotalPages(total_rows, rows_per_page) ==
    IF total_rows > 0 THEN ((total_rows - 1) \div rows_per_page) + 1 ELSE 1

\* Clamp with a fault: the page index is left alone
ClampNever(page, total_pages) == page

\* Clamp with a fault: "reset page to 0", as the comment above the clamp says
ClampToZero(page, total_pages) == IF page >= total_pages THEN 0 ELSE page

\* if page >= total_pages: page = max(0, total_pages - 1)
Clamp(page, total_pages) ==
    IF page >= total_pages THEN Max(0, total_pages - 1) ELSE page

\* rows[start_row:end_row]
Iloc(rows, start_row, end_row) ==
    IF start_row >= Len(rows) THEN <<>>
    ELSE SubSeq(rows, start_row + 1, Min(end_row, Len(rows)))

PagedDf(df, page, rows_per_page) ==
    [cols |-> df.cols,
     rows |-> Iloc(df.rows, page * rows_per_page, page * rows_per_page + rows_per_page)]

(***************************************************************************)
(* Lines 262-267: df.to_csv(index=False), as the list of its lines, each   *)
(* the list of its fields; a missing value is an empty field.              *)
(***************************************************************************)
CsvField(c) == IF c = NaN THEN "" ELSE AsStr(c)

convert_df_to_csv(df) ==
    <<df.cols>> \o
    [i \in DOMAIN df.rows |-> [k \in DOMAIN df.cols |-> CsvField(df.rows[i][df.cols[k]])]]

(***************************************************************************)
(* One run of the script, top to bottom.                                   *)
(***************************************************************************)
NoFrame == EmptyFrame

\* what a run that ends at `stage` leaves behind.  Streamlit keeps the value of
\* a keyed widget only while runs render it: st.stop() (and st.rerun()) end a
\* run as a finished one, and the widgets it did not reach lose their values
Outcome(stage, message, ss, w, rendered, reset, clamped, total_pages, paged_df, csv_data) ==
    [ss |-> ss,
     w |-> Restrict(w, rendered),
     screen |-> [stage |-> stage, message |-> message, reset |-> reset,
                 clamped |-> clamped, total_pages |-> total_pages,
                 paged_df |-> paged_df, csv_data |-> csv_data]]

\* st.stop(), the except branch, or the else branch of line 281
Halt(stage, message, ss, w, rendered, reset) ==
    Outcome(stage, message, ss, w, rendered, reset, FALSE, 0, NoFrame, <<>>)

\* Rejected with a fault: the table is held before the checks
RejectedAfterHold(stage, message, ss, w, df) ==
    Halt(stage, message, Put(Put(ss, "df_original", df), "page", 0), w, {}, FALSE)

\* lines 119-125: st.error / st.warning, then st.stop(), before anything is
\* written to the session state; df is the table that was read
Rejected(stage, message, ss, w, df) == Halt(stage, message, ss, w, {}, FALSE)

\* the selectboxes store what they show
RECURSIVE StoreFilters(_, _, _)
StoreFilters(w, df, cols) ==
    IF cols = <<>> THEN w
    ELSE StoreFilters(Put(w, FilterKey(Head(cols)), selected_value(w, df, Head(cols))),
                      df, Tail(cols))

FilterKeys(df) == {FilterKey(c) : c \in Range(PresentFilterCols(df))}

(***************************************************************************)
(* The script in the order it runs: Run (lines 102-130), FilterStage       *)
(* (132-171), ColumnStage (175-204), PagerStage (206-230), ButtonStage     *)
(* (242-276).  Each stage hands the session state and the widget values it *)
(* has produced to the next; a stage that stops the run ends in Halt.      *)
(***************************************************************************)
RECURSIVE Run(_, _, _, _)

\* Rendered with a fault: the download holds the page on the screen
RenderedPageCsv(message, ss, w, drawn, reset, clamped, display_df, rows_per_page, total_pages) ==
    Outcome("shown", message, ss, w, drawn, reset, clamped, total_pages,
            PagedDf(display_df, ss["page"], rows_per_page),
            convert_df_to_csv(PagedDf(display_df, ss["page"], rows_per_page)))

\* lines 224-240 and 261-276: the page on the screen and the CSV of display_df
\* behind the download button
Rendered(message, ss, w, drawn, reset, clamped, display_df, rows_per_page, total_pages) ==
    Outcome("shown", message, ss, w, drawn, reset, clamped, total_pages,
            PagedDf(display_df, ss["page"], rows_per_page),
            convert_df_to_csv(display_df))

\* ButtonStage with a fault: Next does not look at total_pages
ButtonStageNextUnguarded(file, ss, w, drawn, reset, clamped, display_df, rows_per_page, total_pages, clicked) ==
    LET page == ss["page"]
        shown(message) == Rendered(message, ss, w, drawn, reset, clamped, display_df,
                                   rows_per_page, total_pages)
    IN IF clicked = "Previous"
       THEN IF page > 0
            THEN Run(file, Put(ss, "page", page - 1), w, "")
            ELSE shown("You're on the first page.")
       ELSE IF clicked = "Next"
       THEN Run(file, Put(ss, "page", page + 1), w, "")
       ELSE shown("")

\* lines 242-259: the Previous and Next buttons; st.rerun() runs the script again
ButtonStage(file, ss, w, drawn, reset, clamped, display_df, rows_per_page, total_pages, clicked) ==
    LET page == ss["page"]
        shown(message) == Rendered(message, ss, w, drawn, reset, clamped, display_df,
                                   rows_per_page, total_pages)
    IN IF clicked = "Previous"
       THEN IF page > 0
            THEN Run(file, Put(ss, "page", page - 1), w, "")
            ELSE shown("You're on the first page.")
       ELSE IF clicked = "Next"
       THEN IF page < total_pages - 1
            THEN Run(file, Put(ss, "page", page + 1), w, "")
            ELSE shown("You're on the last page.")
       ELSE shown("")

\* lines 206-230: rows per page, total pages, the clamp of the page index
PagerStage(file, ss, w, drawn, reset, display_df, clicked) ==
    LET rows_per_page == Stored(w, "rows_per_page_input", RowsPerPageValues,
                                DefaultRowsPerPage)
        total_rows == Len(display_df.rows)
        total_pages == TotalPages(total_rows, rows_per_page)
    IN ButtonStage(file,
                   Put(ss, "page", Clamp(ss["page"], total_pages)),
                   Put(w, "rows_per_page_input", rows_per_page),
                   drawn \cup {"rows_per_page_input"},
                   reset, ss["page"] >= total_pages,
                   display_df, rows_per_page, total_pages, clicked)

\* EmptyCheck with a fault: the empty table goes on to the pager
EmptyCheckSkipped(file, ss, w, drawn, reset, display_df, clicked) ==
    PagerStage(file, ss, w, drawn, reset, display_df, clicked)

\* lines 202-204: nothing to show
EmptyCheck(file, ss, w, drawn, reset, display_df, clicked) ==
    IF IsEmpty(display_df)
    THEN Halt("no_match", "No data matches the selected filters.", ss, w, drawn, reset)
    ELSE PagerStage(file, ss, w, drawn, reset, display_df, clicked)

\* lines 175-200: the radio, the multiselect, display_df
ColumnStage(file, ss, w, drawn, reset, clicked) ==
    LET col_option == Stored(w, "col_select_radio",
                             {"All Columns", "Selected Columns"}, "All Columns")
        all_cols == ss["df_filtered"].cols
        selected_cols == Stored(w, "column_selector", Selections(all_cols), all_cols)
    IN IF col_option = "Selected Columns"
       THEN IF selected_cols = <<>>
            THEN Halt("no_columns", "Please select at least one column to display.",
                      ss,
                      Put(Put(w, "col_select_radio", col_option), "column_selector", selected_cols),
                      drawn \cup {"col_select_radio", "column_selector"}, reset)
            ELSE EmptyCheck(file, ss,
                      Put(Put(w, "col_select_radio", col_option), "column_selector", selected_cols),
                      drawn \cup {"col_select_radio", "column_selector"}, reset,
                      SelectColumns(ss["df_filtered"], selected_cols), clicked)
       ELSE EmptyCheck(file, ss, Put(w, "col_select_radio", col_option),
                       drawn \cup {"col_select_radio"}, reset, ss["df_filtered"], clicked)

\* lines 132-171: the dropdowns, active_filters, session_state.df_filtered
FilterStage(file, ss, w, reset, clicked) ==
    LET df_to_filter == ss["df_original"]
    IN ColumnStage(file,
                   Put(ss, "df_filtered", ApplyFilters(df_to_filter, ActiveFilters(w, df_to_filter))),
                   StoreFilters(w, df_to_filter, PresentFilterCols(df_to_filter)),
                   FilterKeys(df_to_filter), reset, clicked)

\* lines 102-130 and 278-282: read the upload, stop on an error or an empty
\* table, hold the table
Run(file, ss, w, clicked) ==
    IF file = 0
    THEN Halt("no_file", "Please upload a file to begin.", ss, w, {}, FALSE)
    ELSE
    LET read == Extracted[file] IN
    IF read.raised
    THEN Halt("exception", "An unexpected error occurred while processing the file",
              ss, w, {}, FALSE)
    ELSE IF read.error # ""
    THEN Rejected("error", read.error, ss, w, read.df)
    ELSE IF read.df_none \/ IsEmpty(read.df)
    THEN Rejected("empty_file", "The file was processed, but the resulting DataFrame is empty.",
                  ss, w, read.df)
    ELSE FilterStage(file, HoldTable(ss, read.df), w, IsNewTable(ss, read.df), clicked)

(***************************************************************************)
(* The interactions.  Each sets what the user set and runs the script.     *)
(***************************************************************************)
Init ==
    /\ uploaded_file = 0
    /\ session_state = [k \in {} |-> 0]
    /\ widgets = [k \in {} |-> 0]
    /\ interaction = "open"
    /\ screen = Halt("no_file", "Please upload a file to begin.",
                     [k \in {} |-> 0], [k \in {} |-> 0], {}, FALSE).screen

Apply(name, file, w, clicked) ==
    LET out == Run(file, session_state, w, clicked)
    IN /\ uploaded_file' = file
       /\ session_state' = out.ss
       /\ widgets' = out.w
       /\ screen' = out.screen
       /\ interaction' = name

\* which widgets the last run drew, from where it ended
PastUpload == screen.stage \in {"no_columns", "no_match", "shown"}

\* the user picks a file in the uploader (line 100)
Upload ==
    \E f \in FileIds : Apply("upload", f, widgets, "")

\* the user removes the file from the uploader
RemoveFile ==
    /\ uploaded_file # 0
    /\ Apply("remove", 0, widgets, "")

\* the user picks a value in one of the filter dropdowns (lines 152-157)
SelectFilter ==
    /\ PastUpload
    /\ \E c \in Range(PresentFilterCols(session_state["df_original"])) :
         \E x \in Range(Options(session_state["df_original"], c)) :
            /\ x # widgets[FilterKey(c)]
            /\ Apply("filter", uploaded_file, Put(widgets, FilterKey(c), x), "")

\* the user flips the radio (lines 178-183)
ChooseColumnMode ==
    /\ PastUpload
    /\ \E o \in {"All Columns", "Selected Columns"} :
         /\ o # widgets["col_select_radio"]
         /\ Apply("column_mode", uploaded_file, Put(widgets, "col_select_radio", o), "")

\* the user changes the multiselect (lines 189-194)
SelectCols ==
    /\ PastUpload
    /\ widgets["col_select_radio"] = "Selected Columns"
    /\ \E sel \in Selections(session_state["df_filtered"].cols) :
         /\ sel # widgets["column_selector"]
         /\ Apply("columns", uploaded_file, Put(widgets, "column_selector", sel), "")

\* the user changes the number input (lines 209-215)
SetRowsPerPage ==
    /\ screen.stage = "shown"
    /\ \E n \in RowsPerPageValues :
         /\ n # widgets["rows_per_page_input"]
         /\ Apply("rows_per_page", uploaded_file, Put(widgets, "rows_per_page_input", n), "")

\* the user clicks Previous (lines 245-251)
ClickPrevious ==
    /\ screen.stage = "shown"
    /\ Apply("previous", uploaded_file, widgets, "Previous")

\* the user clicks Next (lines 253-259)
ClickNext ==
    /\ screen.stage = "shown"
    /\ Apply("next", uploaded_file, widgets, "Next")

Next ==
    \/ Upload
    \/ RemoveFile
    \/ SelectFilter
    \/ ChooseColumnMode
    \/ SelectCols
    \/ SetRowsPerPage
    \/ ClickPrevious
    \/ ClickNext

Spec == Init /\ [][Next]_vars

(***************************************************************************)
(* State functions the properties read.                                    *)
(***************************************************************************)
HasPage == "page" \in DOMAIN session_state

Page == session_state["page"]

\* a run got past the upload checks: the filters were applied
Filtered == screen.stage \in {"no_columns", "no_match", "shown"}

\* a run built display_df: the filtered and column-selected table exists
Displayed == screen.stage \in {"no_match", "shown"}

Shown == screen.stage = "shown"

FilteredRows == session_state["df_filtered"].rows

\* the value the rows-per-page input has, or would have when drawn next
RowsPerPageNow ==
    Stored(widgets, "rows_per_page_input", RowsPerPageValues, DefaultRowsPerPage)

C2_NextPrevious ==
    [][/\ interaction' = "next" =>
            IF Page < screen.total_pages - 1
            THEN session_state'["page"] = Page + 1 /\ screen'.message = ""
            ELSE session_state'["page"] = Page
                 /\ screen'.message = "You're on the last page."
       /\ interaction' = "previous" =>
            IF Page > 0
            THEN session_state'["page"] = Page - 1 /\ screen'.message = ""
            ELSE session_state'["page"] = Page
                 /\ screen'.message = "You're on the first page."]_vars

\* Next was clicked on page index 2 of 3 (25 rows, 10 per page): it is refused
C2_Witness ==
    /\ Shown /\ interaction = "next"
    /\ screen.message = "You're on the last page."
    /\ screen.total_pages = 3 /\ Page = 2
    /\ widgets["rows_per_page_input"] = DefaultRowsPerPage

C5_PagesPartitionTable ==
    Filtered =>
      \A size \in RowsPerPageValues :
        LET t == session_state["df_filtered"]
            n == Len(t.rows)
            total_pages == TotalPages(n, size)
            slice(i) == PagedDf(t, i, size).rows
            rowsOf(i) == {i * size + k : k \in 1..Len(slice(i))}
        IN /\ total_pages >= 1
           /\ n > 0 => (total_pages - 1) * size < n /\ n <= total_pages * size
           /\ \A i \in 0..(total_pages - 1) :
                /\ Len(slice(i)) = Min(size, n - i * size)
                /\ n > 0 => Len(slice(i)) > 0
                /\ \A k \in 1..Len(slice(i)) : slice(i)[k] = t.rows[i * size + k]
           /\ \A r \in 1..n :
                Cardinality({i \in 0..(total_pages - 1) : r \in rowsOf(i)}) = 1

\* the last of at least three pages is on the screen and is not full
C5_Witness ==
    /\ Shown /\ screen.total_pages >= 3 /\ Page = screen.total_pages - 1
    /\ Len(screen.paged_df.rows) > 0
    /\ Len(screen.paged_df.rows) < widgets["rows_per_page_input"]

(***************************************************************************)
(* C6.                                                                     *)
(***************************************************************************)
\* C6 as claimed: an upload read to a non-empty table that differs from the
\* held one (or with none held) replaces the held table and sets the page
\* index to 0; an upload read to a table equal to the held one leaves the
\* held table and the page index as they were.
C6_EqualUploadKeepsPage ==
    [][(interaction' = "upload" /\ screen'.stage \in {"no_columns", "no_match", "shown"}) =>
          LET df == Extracted[uploaded_file'].df
          IN IF "df_original" \notin DOMAIN session_state
                \/ session_state["df_original"] # df
             THEN session_state'["df_original"] = df /\ session_state'["page"] = 0
             ELSE /\ session_state'["df_original"] = session_state["df_original"]
                  /\ session_state'["page"] = Page]_vars

\* C6 as amended: as claimed for a new table; an upload read to a table equal
\* to the held one leaves the held table as it was and does not reset the
\* page index: the page index changes in that run only if the pager's clamp
\* lowers it to total_pages - 1 (the widgets' values are lost when a run in
\* between stopped early), and is unchanged otherwise.
C6_UploadHoldsOrKeeps ==
    [][(interaction' = "upload" /\ screen'.stage \in {"no_columns", "no_match", "shown"}) =>
          LET df == Extracted[uploaded_file'].df
          IN IF "df_original" \notin DOMAIN session_state
                \/ session_state["df_original"] # df
             THEN /\ session_state'["df_original"] = df
                  /\ session_state'["page"] = 0
                  /\ screen'.reset
             ELSE /\ session_state'["df_original"] = session_state["df_original"]
                  /\ ~screen'.reset
                  /\ session_state'["page"] =
                        (IF screen'.stage = "shown"
                         THEN Min(Page, screen'.total_pages - 1) ELSE Page)]_vars

\* an upload has just been read to the table already held, on a page other
\* than the first, and the page index is still that page
C6_Witness ==
    /\ Shown /\ interaction = "upload" /\ ~screen.reset /\ ~screen.clamped
    /\ Page > 0

(***************************************************************************)
(* C7.                                                                     *)
(***************************************************************************)
\* the value a filter dropdown shows; "All" for a filter column the table does
\* not have (no dropdown is drawn for it)
Chosen(c) == IF FilterKey(c) \in DOMAIN widgets THEN widgets[FilterKey(c)] ELSE "All"

\* C7: the filtered table is exactly the rows of the held table, in order,
\* whose text equals the chosen value in every constrained filter column;
\* filter columns the table lacks have no dropdown and constrain nothing;
\* with every dropdown on "All" the filtered table is the held table.
C7_FilteredRowsMatch ==
    Filtered =>
      LET original == session_state["df_original"]
          has(c) == c \in Range(original.cols)
          match(r) == \A c \in Range(filter_cols) :
                         (has(c) /\ Chosen(c) # "All") => r[c][2] = Chosen(c)
      IN /\ \A c \in Range(filter_cols) : has(c) <=> FilterKey(c) \in DOMAIN widgets
         /\ session_state["df_filtered"].cols = original.cols
         /\ session_state["df_filtered"].rows = SelectSeq(original.rows, match)
         /\ (\A c \in Range(filter_cols) : Chosen(c) = "All") =>
               session_state["df_filtered"] = original

\* publisher "7" has just been chosen: the row holding the number 7 and the
\* row holding the text "7" are both kept
C7_Witness ==
    /\ Filtered /\ interaction = "filter"
    /\ Chosen("publisher") = "7" /\ Chosen("publication_type") = "All"
    /\ Len(FilteredRows) = 2
    /\ FilteredRows[1]["publisher"] # FilteredRows[2]["publisher"]

(***************************************************************************)
(* C8.                                                                     *)
(***************************************************************************)
\* C8: for an uploaded JSON object, the held table is built from the first
\* value, in the document's order, that is a non-empty array whose first
\* element is an object; json_normalize is used only when no value is such an
\* array; and the table is the one the array gives as the root of a document.
C8_FirstRecordListWins ==
    (Filtered /\ Files[uploaded_file].ext = "json"
              /\ Files[uploaded_file].content.t = "dict") =>
      LET pairs == Files[uploaded_file].content.v
          hits == {i \in DOMAIN pairs :
                      /\ pairs[i][2].t = "list"
                      /\ Len(pairs[i][2].v) > 0
                      /\ pairs[i][2].v[1].t = "dict"}
          first == CHOOSE i \in hits : \A j \in hits : i <= j
      IN IF hits # {}
         THEN /\ Extracted[uploaded_file].ret = "records_key"
              /\ session_state["df_original"] = DataFrame(pairs[first][2].v)
              /\ session_state["df_original"] = load_nested_json(pairs[first][2]).df
         ELSE /\ Extracted[uploaded_file].ret = "normalize"
              /\ session_state["df_original"] = json_normalize(pairs)

\* the object with one record list (after a number, a list of strings and an
\* empty list) has just been uploaded over the same array as a root: the
\* table read is the one already held
C8_Witness ==
    /\ Filtered /\ interaction = "upload" /\ uploaded_file = 2
    /\ ~screen.reset
    /\ session_state["df_original"] = Extracted[1].df

(***************************************************************************)
(* C9.                                                                     *)
(***************************************************************************)
\* C9: whenever a page is shown, the CSV behind the download is the header of
\* the displayed columns and one line per row of the whole filtered table;
\* a rows-per-page change or a Next/Previous click leaves it as it was.
C9_ExportIgnoresPaging ==
    [][screen'.stage = "shown" =>
          LET t == session_state'["df_filtered"]
              cols == IF widgets'["col_select_radio"] = "Selected Columns"
                      THEN widgets'["column_selector"] ELSE t.cols
              csv == screen'.csv_data
          IN /\ Len(csv) = 1 + Len(t.rows)
             /\ csv[1] = cols
             /\ \A i \in DOMAIN t.rows :
                   csv[i + 1] = [k \in DOMAIN cols |->
                                    IF t.rows[i][cols[k]] = NaN THEN ""
                                    ELSE t.rows[i][cols[k]][2]]
             /\ (screen.stage = "shown"
                 /\ interaction' \in {"rows_per_page", "next", "previous"}) =>
                   csv = screen.csv_data]_vars

\* a page other than the first is on the screen, and the CSV has more lines
\* than the page has rows
C9_Witness ==
    /\ Shown /\ interaction = "next" /\ Page > 0
    /\ Len(screen.csv_data) = 1 + Len(FilteredRows)
    /\ Len(screen.csv_data) > 1 + Len(screen.paged_df.rows)

(***************************************************************************)
(* C10.                                                                    *)
(***************************************************************************)
\* C10: an upload that is read to an error message (JSON decode error, root
\* neither list nor dict) or to an empty table stops the run there: nothing is
\* rendered and the session state (held table, filtered table, page index) is
\* what it was.
C10_RejectedUploadKeepsSession ==
    [][(interaction' = "upload"
        /\ ~Extracted[uploaded_file'].raised
        /\ \/ Extracted[uploaded_file'].error # ""
           \/ Extracted[uploaded_file'].df_none
           \/ IsEmpty(Extracted[uploaded_file'].df)) =>
          /\ screen'.stage = (IF Extracted[uploaded_file'].ret \in {"decode_error", "bad_root"}
                              THEN "error" ELSE "empty_file")
          /\ session_state' = session_state
          /\ screen'.total_pages = 0
          /\ screen'.paged_df = NoFrame
          /\ screen'.csv_data = <<>>]_vars

\* malformed JSON has just been uploaded over a held table shown on a page
\* other than the first: table and page index are still there
C10_Witness ==
    /\ interaction = "upload" /\ screen.stage = "error"
    /\ Extracted[uploaded_file].ret = "decode_error"
    /\ "df_original" \in DOMAIN session_state
    /\ "df_filtered" \in DOMAIN session_state
    /\ HasPage /\ Page > 0
====
